---- MODULE Spec2Model ----
(***************************************************************************)
(* Client side of the WebDriver protocol: session creation with fallback   *)
(* driver launch, session-scoped queries, tab selection, session teardown. *)
(* Every handler is one action; the responses of the WebDriver server and  *)
(* the results of the operating system (spawn, kill) are its inputs.       *)
(***************************************************************************)
EXTENDS Integers, Sequences, FiniteSets, TLC

\* ------------------------------------------------------------------ bounds
MaxSessionIds == 2
MaxHandles == 2

AllSessionIds == <<"s1", "s2", "s3">>
AllHandles    == <<"w1", "w2", "w3", "w4">>
SessionIds == {AllSessionIds[i] : i \in 1..MaxSessionIds}
Handles    == {AllHandles[i] : i \in 1..MaxHandles}

Browsers   == {"Firefox", "Chrome"}

\* the build target: cfg!(unix) / cfg!(windows), what Platform::current()
\* detects on it, and cfg!(debug_assertions)
Targets ==
    {[family |-> f, platform |-> p, debug |-> d] :
        f \in {"unix", "windows", "other"},
        p \in {"Linux", "Windows", "Unknow"},
        d \in BOOLEAN}

\* Platform::current() names an operating system only on a build for it
Platform_current(tgt) == tgt.platform
TargetOk(tgt) ==
    /\ tgt.platform = "Linux" => tgt.family = "unix"
    /\ tgt.platform = "Windows" => tgt.family = "windows"
    /\ tgt.family = "other" => tgt.platform = "Unknow"

\* ------------------------------------------------------------ JSON values
JNull   == [t |-> "null"]
JStr(s) == [t |-> "str", s |-> s]
JNum(n) == [t |-> "num", n |-> n]
JBool(b) == [t |-> "bool", b |-> b]
JArr(a) == [t |-> "arr", a |-> a]
JObj(f) == [t |-> "obj", o |-> f]
EmptyObj == JObj([k \in {} |-> JNull])

\* json[key]: the member of an object, Null for a missing key or a non-object
Get(j, k) == IF j.t = "obj" /\ k \in DOMAIN j.o THEN j.o[k] ELSE JNull

is_string(j) == j.t = "str"
is_null(j)   == j.t = "null"
is_number(j) == j.t = "num"

\* Display of a JSON value: a string prints raw, Null prints "null"
to_string(j) == IF j.t = "str" THEN j.s
                ELSE IF j.t = "null" THEN "null"
                ELSE "<dump>"

\* ---------------------------------------------------------------- results
Ok(v)  == [tag |-> "Ok", val |-> v]
Err(e) == [tag |-> "Err", err |-> e]
Panic  == [tag |-> "Panic"]
Unit   == "()"

\* Option<String>
None    == [some |-> FALSE]
Some(s) == [some |-> TRUE, v |-> s]

\* WebdriverError::from(String): wire error string to typed variant
WebdriverError_from(s) ==
    CASE s = "no such window"      -> "NoSuchWindow"
      [] s = "no such element"     -> "NoSuchElement"
      [] s = "session not created" -> "SessionNotCreated"
      [] OTHER                     -> "UnknownError"

\* ------------------------------------------------- requests and responses
NoBody == [t |-> "nobody"]
Req(m, p, b) == [method |-> m, path |-> p, body |-> b]
Exchange(req, resp) == [req |-> req, resp |-> resp]

RFail    == [kind |-> "fail"]      \* send() failed: refused, timeout
RNoText  == [kind |-> "notext"]    \* the body could not be read as text
RGarbage == [kind |-> "garbage"]   \* the body is not JSON
RJson(d) == [kind |-> "json", doc |-> d]

Value(v)  == JObj([value |-> v])
ErrDoc(e) == Value(JObj([error |-> JStr(e), message |-> JStr("m")]))
WireErrors == {"no such window", "session not created"}

CommonResponses ==
    {RFail, RNoText, RGarbage, RJson(Value(JNull)), RJson(EmptyObj),
     RJson(Value(JNum(5))), RJson(Value(JObj([error |-> JNum(7)])))}
    \cup {RJson(ErrDoc(e)) : e \in WireErrors}

SessionResponses ==
    CommonResponses
    \cup {RJson(Value(JObj([sessionId |-> JStr(s)]))) : s \in SessionIds}
    \cup {RJson(Value(JObj([sessionId |-> JStr(s), error |-> JStr("no such window")]))) :
            s \in SessionIds}

WindowResponses ==
    CommonResponses \cup {RJson(Value(JStr(h))) : h \in Handles}


\* ------------------------------------------------------ session creation
\* the capabilities object of lines 135-195
AlwaysMatch(browser, tgt) ==
    [platformName |-> JStr(Platform_current(tgt)), browserName |-> JStr(browser)]

\* a payload that never asks for a headless browser
post_data_never_headless(browser, tgt) ==
    JObj([capabilities |-> JObj([alwaysMatch |-> JObj(AlwaysMatch(browser, tgt))])])

post_data(browser, tgt) ==
    IF browser = "Firefox" THEN
        IF tgt.debug THEN
            JObj([capabilities |-> JObj(
                ("alwaysMatch" :> JObj(AlwaysMatch(browser, tgt)
                                       @@ ("moz:webdriverClick" :> JBool(FALSE))))
                @@ ("moz:webdriverClick" :> JBool(FALSE)))])
        ELSE
            JObj([capabilities |-> JObj(
                ("alwaysMatch" :> JObj(AlwaysMatch(browser, tgt)
                    @@ ("moz:firefoxOptions" :> JObj([args |-> JArr(<<JStr("-headless")>>)]))))
                @@ ("moz:webdriverClick" :> JBool(FALSE)))])
    ELSE IF browser = "Chrome" THEN
        IF tgt.debug THEN
            JObj([capabilities |-> JObj([alwaysMatch |-> JObj(AlwaysMatch(browser, tgt))])])
        ELSE
            JObj([capabilities |-> JObj([alwaysMatch |-> JObj(AlwaysMatch(browser, tgt)
                    @@ ("goog:chromeOptions" :> JObj([args |-> JArr(<<JStr("-headless")>>)])))])])
    ELSE
        JObj([capabilities |-> JObj([alwaysMatch |-> JObj(AlwaysMatch(browser, tgt))])])

\* a Session value
SessionValue(id, tabs, process) ==
    [id |-> id, tabs |-> tabs, webdriver_process |-> process]
NoSession == SessionValue(None, <<>>, "None")

\* what one call left behind: its result, the session it built, the
\* exchanges it had with the server, in order
Outcome(ret, session, http) == [ret |-> ret, session |-> session, http |-> http]

\* the session id of the answer is not recorded in the session
create_session_drops_id(browser, tgt, clientOk, resp) ==
    IF clientOk /\ resp.kind = "json"
       /\ is_string(Get(Get(resp.doc, "value"), "sessionId"))
    THEN Outcome(Ok("Session"), NoSession,
                 <<Exchange(Req("POST", <<"session">>, post_data(browser, tgt)), resp)>>)
    ELSE Outcome(Err("InvalidResponse"), NoSession, <<>>)

\* Session::new_session past the platform check; clientOk: reqwest's
\* builder gave a client, resp: the answer to POST /session
create_session(browser, tgt, clientOk, resp) ==
    IF ~clientOk THEN
        Outcome(Err("Custom"), NoSession, <<>>)
    ELSE
        LET http == <<Exchange(Req("POST", <<"session">>, post_data(browser, tgt)), resp)>>
        IN  IF resp.kind = "fail" THEN
                Outcome(Err("FailedRequest"), NoSession, http)
            ELSE IF resp.kind \in {"notext", "garbage"} THEN
                Outcome(Err("InvalidResponse"), NoSession, http)
            ELSE
                LET value == Get(resp.doc, "value")
                IN  IF is_string(Get(value, "sessionId")) THEN
                        Outcome(Ok("Session"),
                                SessionValue(Some(to_string(Get(value, "sessionId"))),
                                             <<>>, "None"),
                                http)
                    ELSE IF is_string(Get(value, "error")) THEN
                        Outcome(Err(WebdriverError_from(to_string(Get(value, "error")))),
                                NoSession, http)
                    ELSE
                        Outcome(Err("InvalidResponse"), NoSession, http)

\* the platform is not looked at before the request is sent
new_session_platform_unchecked(browser, tgt, clientOk, resp) ==
    create_session(browser, tgt, clientOk, resp)

\* Session::new_session
new_session(browser, tgt, clientOk, resp) ==
    IF Platform_current(tgt) = "Unknow" THEN
        Outcome(Err("UnsupportedPlatform"), NoSession, <<>>)
    ELSE
        create_session(browser, tgt, clientOk, resp)

\* the driver executable each branch of Session::new launches, and the
\* settle delay that follows the launch
Launch(browser, family) ==
    IF family = "unix" THEN
        IF browser = "Firefox"
        THEN [cmd |-> "./geckodriver", args |-> <<>>, sleep_ms |-> 150]
        ELSE [cmd |-> "./chromedriver", args |-> <<"--port=4444">>, sleep_ms |-> 200]
    ELSE
        IF browser = "Firefox"
        THEN [cmd |-> "geckodriver.exe", args |-> <<>>, sleep_ms |-> 100]
        ELSE [cmd |-> "chromedriver.exe", args |-> <<"--port=4444">>, sleep_ms |-> 200]

\* inputs of one Session::new: the two client builds, the two answers to
\* POST /session, and whether the operating system could start the driver
NewInputs ==
    [client1 : BOOLEAN, r1 : SessionResponses, spawnOk : BOOLEAN,
     client2 : BOOLEAN, r2 : SessionResponses]

\* the result of Session::new: Outcome plus the launches asked of the OS
\* (spawns), whether a child process was started (started), the results of
\* the creation attempts in order (attempts), and where the handle of the
\* started child ended: "none" (no child), "session", or "dropped" (the
\* local p went out of scope; dropping a Child does not kill it)
NewOutcome(o, spawns, started, attempts, child) ==
    [ret |-> o.ret, session |-> o.session, http |-> o.http, spawns |-> spawns,
     started |-> started, attempts |-> attempts, child |-> child]

\* the retried session is returned without the child it should own
Fallback_handle_not_stored(browser, tgt, in, first) ==
    LET launch == Launch(browser, tgt.family)
    IN  IF ~in.spawnOk THEN
            NewOutcome(Outcome(Panic, NoSession, first.http), <<launch>>, FALSE,
                       <<first.ret>>, "none")
        ELSE
            LET result == new_session(browser, tgt, in.client2, in.r2)
                http   == first.http \o result.http
            IN  NewOutcome(Outcome(result.ret, result.session, http),
                           <<launch>>, TRUE, <<first.ret, result.ret>>, "dropped")

\* lines 33-47, 50-65, 70-84, 87-102: spawn, sleep, retry once
Fallback(browser, tgt, in, first) ==
    LET launch == Launch(browser, tgt.family)
    IN  IF ~in.spawnOk THEN
            \* .expect("Failed to start process.")
            NewOutcome(Outcome(Panic, NoSession, first.http), <<launch>>, FALSE,
                       <<first.ret>>, "none")
        ELSE
            LET result == new_session(browser, tgt, in.client2, in.r2)
                http   == first.http \o result.http
            IN  IF result.ret.tag = "Ok" THEN
                    NewOutcome(Outcome(result.ret,
                                       [result.session EXCEPT !.webdriver_process = "Some"],
                                       http),
                               <<launch>>, TRUE, <<first.ret, result.ret>>, "session")
                ELSE
                    NewOutcome(Outcome(result.ret, NoSession, http),
                               <<launch>>, TRUE, <<first.ret, result.ret>>, "dropped")

\* every failed first attempt launches the driver, not only a transport failure
Session_new_retries_every_error(browser, tgt, in) ==
    LET result == new_session(browser, tgt, in.client1, in.r1)
    IN  IF result.ret.tag = "Err" /\ tgt.family \in {"unix", "windows"}
        THEN Fallback(browser, tgt, in, result)
        ELSE NewOutcome(result, <<>>, FALSE, <<result.ret>>, "none")

\* the driver is launched on unix only
Session_new_unix_only(browser, tgt, in) ==
    LET result == new_session(browser, tgt, in.client1, in.r1)
    IN  IF result.ret = Err("FailedRequest") /\ tgt.family = "unix"
        THEN Fallback(browser, tgt, in, result)
        ELSE NewOutcome(result, <<>>, FALSE, <<result.ret>>, "none")

\* Session::new
Session_new(browser, tgt, in) ==
    LET result == new_session(browser, tgt, in.client1, in.r1)
    IN  IF result.ret = Err("FailedRequest") THEN
            IF tgt.family = "unix" THEN
                Fallback(browser, tgt, in, result)
            ELSE IF tgt.family = "windows" THEN
                Fallback(browser, tgt, in, result)
            ELSE
                NewOutcome(result, <<>>, FALSE, <<result.ret>>, "none")
        ELSE
            NewOutcome(result, <<>>, FALSE, <<result.ret>>, "none")


\* ------------------------------------------------------- session teardown
\* the result of kill is unwrapped
Session_drop_unwrap(session, killOk) ==
    IF session.webdriver_process = "Some" THEN
        [ret |-> IF killOk THEN Ok(Unit) ELSE Panic,
         session |-> [session EXCEPT !.webdriver_process = "None"],
         http |-> <<>>, kills |-> <<killOk>>]
    ELSE
        [ret |-> Ok(Unit), session |-> session, http |-> <<>>, kills |-> <<>>]

\* Drop for Session; killOk: Child::kill returned Ok. Nothing is returned
\* and the result of kill is discarded.
Session_drop(session, killOk) ==
    IF session.webdriver_process = "Some" THEN
        [ret |-> Ok(Unit), session |-> [session EXCEPT !.webdriver_process = "None"],
         http |-> <<>>, kills |-> <<killOk>>]
    ELSE
        [ret |-> Ok(Unit), session |-> session, http |-> <<>>, kills |-> <<>>]

\* ------------------------------------------------ session-scoped queries
SessionUrl(id, suffix) == <<"session", id>> \o suffix

Tab_new_from(id, session_id) == [id |-> id, session_id |-> session_id]

\* json[i] on an array: the element, Null out of bounds or on a non-array
At(j, i) == IF j.t = "arr" /\ i + 1 \in DOMAIN j.a THEN j.a[i + 1] ELSE JNull

\* the loop of lines 259-263, from index i with tabs collected so far
RECURSIVE HandlesLoop(_, _, _, _)
HandlesLoop(handles, i, tabs, session_id) ==
    IF ~is_null(At(handles, i))
    THEN HandlesLoop(handles, i + 1,
                     Append(tabs, Tab_new_from(to_string(At(handles, i + 1)), session_id)),
                     session_id)
    ELSE tabs

\* the tabs found are appended to the tabs of the session as they come
get_all_tabs_appends(session, resp) ==
    IF ~session.id.some THEN
        Outcome(Err("NoSuchWindow"), session, <<>>)
    ELSE
        LET http == <<Exchange(Req("GET", SessionUrl(session.id.v, <<"window", "handles">>),
                                   NoBody), resp)>>
        IN  IF resp.kind = "json" /\ ~is_null(Get(Get(resp.doc, "value"), "handles")) THEN
                LET found == HandlesLoop(Get(Get(resp.doc, "value"), "handles"), 0, <<>>,
                                         session.id.v)
                IN  Outcome([tag |-> "Ok", val |-> "Vec<Tab>", tabs |-> found],
                            [session EXCEPT !.tabs = @ \o found], http)
            ELSE
                Outcome(Err("InvalidResponse"), session, http)

\* Session::get_all_tabs
get_all_tabs(session, resp) ==
    IF ~session.id.some THEN
        Outcome(Err("NoSuchWindow"), session, <<>>)
    ELSE
        LET http == <<Exchange(Req("GET", SessionUrl(session.id.v, <<"window", "handles">>),
                                   NoBody), resp)>>
        IN  IF resp.kind = "fail" THEN
                Outcome(Err("FailedRequest"), session, http)
            ELSE IF resp.kind \in {"notext", "garbage"} THEN
                Outcome(Err("InvalidResponse"), session, http)
            ELSE
                LET value == Get(resp.doc, "value")
                IN  IF ~is_null(Get(value, "handles")) THEN
                        Outcome([tag |-> "Ok", val |-> "Vec<Tab>",
                                 tabs |-> HandlesLoop(Get(value, "handles"), 0, <<>>,
                                                      session.id.v)],
                                session, http)
                    ELSE IF is_string(Get(value, "error")) THEN
                        Outcome(Err(WebdriverError_from(to_string(Get(value, "error")))),
                                session, http)
                    ELSE
                        Outcome(Err("InvalidResponse"), session, http)

\* lines 299-331 of get_selected_tab_id: GET window on the session id sid
current_window(sid, resp) ==
    LET http == <<Exchange(Req("GET", SessionUrl(sid, <<"window">>), NoBody), resp)>>
    IN  IF resp.kind = "fail" THEN
            [ret |-> Err("FailedRequest"), http |-> http]
        ELSE IF resp.kind \in {"notext", "garbage"} THEN
            [ret |-> Err("InvalidResponse"), http |-> http]
        ELSE
            LET value == Get(resp.doc, "value")
            IN  IF is_string(value) THEN
                    [ret |-> Ok(to_string(value)), http |-> http]
                ELSE IF is_string(Get(value, "error")) THEN
                    [ret |-> Err(WebdriverError_from(to_string(Get(value, "error")))),
                     http |-> http]
                ELSE
                    [ret |-> Err("InvalidResponse"), http |-> http]

\* Session::get_selected_tab_id, on the session id the caller holds
get_selected_tab_id(id, resp) ==
    IF ~id.some THEN
        [ret |-> Err("NoSuchWindow"), http |-> <<>>]
    ELSE
        current_window(id.v, resp)

\* Session::get_selected_tab
get_selected_tab(session, resp) ==
    LET r == get_selected_tab_id(session.id, resp)
    IN  IF r.ret.tag = "Ok"
        THEN Outcome([tag |-> "Ok", val |-> "Tab",
                      tab |-> Tab_new_from(r.ret.val, session.id.v)], session, r.http)
        ELSE Outcome(r.ret, session, r.http)


\* ---------------------------------------------------------------- timeouts
\* JsonValue::as_usize: the number when it is one and not negative
\* a value that is no number is read as 0
as_usize_null_is_zero(j) ==
    IF j.t = "num" /\ j.n >= 0 THEN [some |-> TRUE, v |-> j.n]
    ELSE [some |-> TRUE, v |-> 0]

as_usize(j) ==
    IF j.t = "num" /\ j.n >= 0 THEN [some |-> TRUE, v |-> j.n]
    ELSE [some |-> FALSE]

Timeouts(script, page_load, implicit) ==
    [script |-> script, page_load |-> page_load, implicit |-> implicit]

\* Timeouts::to_json: the fields that are present
Timeouts_to_json(t) ==
    IF t.script.some
    THEN JObj([script |-> JNum(t.script.v), pageLoad |-> JNum(t.page_load),
               implicit |-> JNum(t.implicit)])
    ELSE JObj([pageLoad |-> JNum(t.page_load), implicit |-> JNum(t.implicit)])

\* Session::get_timeouts
get_timeouts(session, resp) ==
    IF ~session.id.some THEN
        Outcome(Err("NoSuchWindow"), session, <<>>)
    ELSE
        LET http == <<Exchange(Req("GET", SessionUrl(session.id.v, <<"timeouts">>),
                                   NoBody), resp)>>
        IN  IF resp.kind = "fail" THEN
                Outcome(Err("FailedRequest"), session, http)
            ELSE IF resp.kind \in {"notext", "garbage"} THEN
                Outcome(Err("InvalidResponse"), session, http)
            ELSE
                LET value == Get(resp.doc, "value")
                IN  IF is_number(Get(value, "pageLoad")) /\ is_number(Get(value, "implicit"))
                    THEN
                        \* .as_usize().unwrap()
                        IF as_usize(Get(value, "pageLoad")).some
                           /\ as_usize(Get(value, "implicit")).some
                        THEN Outcome([tag |-> "Ok", val |-> "Timeouts",
                                      timeouts |-> Timeouts(as_usize(Get(value, "script")),
                                                     as_usize(Get(value, "pageLoad")).v,
                                                     as_usize(Get(value, "implicit")).v)],
                                     session, http)
                        ELSE Outcome(Panic, session, http)
                    ELSE IF is_string(Get(value, "error")) THEN
                        Outcome(Err(WebdriverError_from(to_string(Get(value, "error")))),
                                session, http)
                    ELSE
                        Outcome(Err("InvalidResponse"), session, http)

\* lines 393-427 of set_timeouts: POST timeouts on the session id sid
post_timeouts(session, sid, timeouts, resp) ==
    LET http == <<Exchange(Req("POST", SessionUrl(sid, <<"timeouts">>),
                               Timeouts_to_json(timeouts)), resp)>>
    IN  IF resp.kind = "fail" THEN
            Outcome(Err("FailedRequest"), session, http)
        ELSE IF resp.kind \in {"notext", "garbage"} THEN
            Outcome(Err("InvalidResponse"), session, http)
        ELSE
            LET value == Get(resp.doc, "value")
            IN  IF is_null(value) THEN
                    Outcome(Ok(Unit), session, http)
                ELSE IF is_string(Get(value, "error")) THEN
                    Outcome(Err(WebdriverError_from(to_string(Get(value, "error")))),
                            session, http)
                ELSE
                    Outcome(Err("InvalidResponse"), session, http)

\* the request is built and sent with no session id in it
set_timeouts_unguarded(session, timeouts, resp) ==
    post_timeouts(session, IF session.id.some THEN session.id.v ELSE "", timeouts, resp)

\* Session::set_timeouts
set_timeouts(session, timeouts, resp) ==
    IF ~session.id.some THEN
        Outcome(Err("NoSuchWindow"), session, <<>>)
    ELSE
        post_timeouts(session, session.id.v, timeouts, resp)

\* Session::new_tab: POST window/new; the tab of the handle in the answer
\* is appended to the tabs of the session and returned
Session_new_tab(session, resp) ==
    IF ~session.id.some THEN
        Outcome(Err("NoSuchWindow"), session, <<>>)
    ELSE
        LET http == <<Exchange(Req("POST", SessionUrl(session.id.v, <<"window", "new">>),
                                   EmptyObj), resp)>>
        IN  IF resp.kind = "fail" THEN
                Outcome(Err("FailedRequest"), session, http)
            ELSE IF resp.kind \in {"notext", "garbage"} THEN
                Outcome(Err("InvalidResponse"), session, http)
            ELSE
                LET value == Get(resp.doc, "value")
                IN  IF is_string(Get(value, "handle")) THEN
                        LET tab == Tab_new_from(to_string(Get(value, "handle")), session.id.v)
                        IN  Outcome([tag |-> "Ok", val |-> "Tab", tab |-> tab],
                                    [session EXCEPT !.tabs = Append(@, tab)], http)
                    ELSE IF is_string(Get(value, "error")) THEN
                        Outcome(Err(WebdriverError_from(to_string(Get(value, "error")))),
                                session, http)
                    ELSE
                        Outcome(Err("InvalidResponse"), session, http)

\* the tab is returned and the session does not keep it
Tab_new_forgets_tab(session, resp) ==
    [Session_new_tab(session, resp) EXCEPT !.session = session]

\* Tab::new
Tab_new(session, resp) ==
    Session_new_tab(session, resp)

\* the tabs are compared field by field
Tab_eq_by_fields(a, b) ==
    a = b

\* PartialEq for Tab
Tab_eq(a, b) ==
    a.id = b.id

\* -------------------------------------------------------------------- tabs
\* lines 56-93 of Tab::select: POST window {handle: id}, after the
\* exchanges in before
switch_window(tab, before, switch) ==
    LET http == before \o
                <<Exchange(Req("POST", SessionUrl(tab.session_id, <<"window">>),
                               JObj([handle |-> JStr(tab.id)])), switch)>>
    IN  IF switch.kind = "fail" THEN
            [ret |-> Err("FailedRequest"), http |-> http]
        ELSE IF switch.kind \in {"notext", "garbage"} THEN
            [ret |-> Err("InvalidResponse"), http |-> http]
        ELSE
            LET value == Get(switch.doc, "value")
            IN  IF is_null(value) THEN
                    [ret |-> Ok(Unit), http |-> http]
                ELSE IF is_string(Get(value, "error")) THEN
                    [ret |-> Err(WebdriverError_from(to_string(Get(value, "error")))),
                     http |-> http]
                ELSE
                    [ret |-> Err("InvalidResponse"), http |-> http]

\* the comparison with the current window is lost: the switch is always sent
select_always_switches(tab, current, switch) ==
    switch_window(tab, get_selected_tab_id(Some(tab.session_id), current).http, switch)

\* the switch is sent without asking for the current window first
select_switches_unasked(tab, current, switch) ==
    switch_window(tab, <<>>, switch)

\* the current window is asked for and never changed
select_never_switches(tab, current, switch) ==
    [ret |-> Ok(Unit), http |-> get_selected_tab_id(Some(tab.session_id), current).http]

\* an error of the query for the current window ends the selection
select_returns_query_error(tab, current, switch) ==
    LET selected == get_selected_tab_id(Some(tab.session_id), current)
    IN  IF selected.ret.tag = "Err" THEN selected
        ELSE IF selected.ret.val = tab.id THEN [ret |-> Ok(Unit), http |-> selected.http]
        ELSE switch_window(tab, selected.http, switch)

\* the answer to the switch is not read: the selection always succeeds
select_ignores_switch_failure(tab, current, switch) ==
    [ret |-> Ok(Unit), http |-> select_always_switches(tab, current, switch).http]

\* Tab::select; current: the answer to GET window, switch: the answer to
\* POST window
select(tab, current, switch) ==
    LET selected == get_selected_tab_id(Some(tab.session_id), current)
    IN  IF selected.ret.tag = "Ok" /\ selected.ret.val = tab.id THEN
            [ret |-> Ok(Unit), http |-> selected.http]
        ELSE
            switch_window(tab, selected.http, switch)

\* the answers one tab operation gets: to the GET of the current window, to
\* the switch POST, and to the operation's own command
TabInputs(currents, switches, resps) ==
    [current : currents, switch : switches, resp : resps]

\* the reading shared by the commands whose success is value == null
\* (tab.rs 119-142, 354-377, 401-424, 448-471, 498-521)
read_null(resp, http) ==
    IF resp.kind = "fail" THEN
        [ret |-> Err("FailedRequest"), http |-> http]
    ELSE IF resp.kind \in {"notext", "garbage"} THEN
        [ret |-> Err("InvalidResponse"), http |-> http]
    ELSE
        LET value == Get(resp.doc, "value")
        IN  IF is_null(value) THEN
                [ret |-> Ok(Unit), http |-> http]
            ELSE IF is_string(Get(value, "error")) THEN
                [ret |-> Err(WebdriverError_from(to_string(Get(value, "error")))),
                 http |-> http]
            ELSE
                [ret |-> Err("InvalidResponse"), http |-> http]

\* the reading shared by get_url and get_title (tab.rs 262-285, 307-330)
read_string(resp, http) ==
    IF resp.kind = "fail" THEN
        [ret |-> Err("FailedRequest"), http |-> http]
    ELSE IF resp.kind \in {"notext", "garbage"} THEN
        [ret |-> Err("InvalidResponse"), http |-> http]
    ELSE
        LET value == Get(resp.doc, "value")
        IN  IF is_string(value) THEN
                [ret |-> Ok(to_string(value)), http |-> http]
            ELSE IF is_string(Get(value, "error")) THEN
                [ret |-> Err(WebdriverError_from(to_string(Get(value, "error")))),
                 http |-> http]
            ELSE
                [ret |-> Err("InvalidResponse"), http |-> http]

\* the command of a tab operation, sent after a successful selection
Command(tab, selected, method, suffix, body, resp) ==
    selected.http \o <<Exchange(Req(method, SessionUrl(tab.session_id, suffix), body), resp)>>

\* the command is sent whatever the selection returned
navigate_ignores_selection(tab, url, in) ==
    read_null(in.resp,
              Command(tab, select(tab, in.current, in.switch), "POST", <<"url">>,
                      JObj([url |-> JStr(url)]), in.resp))

\* a response that is JSON counts as success whatever its value
navigate_any_json_ok(tab, url, in) ==
    LET selected == select(tab, in.current, in.switch)
        http == Command(tab, selected, "POST", <<"url">>, JObj([url |-> JStr(url)]), in.resp)
    IN  IF selected.ret.tag = "Err" THEN selected
        ELSE IF in.resp.kind = "json" /\ ~is_string(Get(Get(in.resp.doc, "value"), "error"))
        THEN [ret |-> Ok(Unit), http |-> http]
        ELSE read_null(in.resp, http)

\* a command that failed at transport is sent a second time
navigate_resends_on_failure(tab, url, in) ==
    LET selected == select(tab, in.current, in.switch)
        once == Command(tab, selected, "POST", <<"url">>, JObj([url |-> JStr(url)]), in.resp)
    IN  IF selected.ret.tag = "Err" THEN selected
        ELSE IF in.resp.kind = "fail"
        THEN read_null(in.resp,
                       Command(tab, [http |-> once], "POST", <<"url">>,
                               JObj([url |-> JStr(url)]), in.resp))
        ELSE read_null(in.resp, once)

\* Tab::navigate
navigate(tab, url, in) ==
    LET selected == select(tab, in.current, in.switch)
    IN  IF selected.ret.tag = "Err" THEN selected
        ELSE read_null(in.resp,
                       Command(tab, selected, "POST", <<"url">>,
                               JObj([url |-> JStr(url)]), in.resp))

\* value must be null for close to succeed, as for the other commands
close_requires_null(tab, in) ==
    LET selected == select(tab, in.current, in.switch)
    IN  IF selected.ret.tag = "Err" THEN selected
        ELSE read_null(in.resp,
                       Command(tab, selected, "DELETE", <<"window">>, NoBody, in.resp))

\* Tab::close
close(tab, in) ==
    LET selected == select(tab, in.current, in.switch)
    IN  IF selected.ret.tag = "Err" THEN selected
        ELSE
            LET http == Command(tab, selected, "DELETE", <<"window">>, NoBody, in.resp)
            IN  IF in.resp.kind = "fail" THEN
                    [ret |-> Err("FailedRequest"), http |-> http]
                ELSE IF in.resp.kind \in {"notext", "garbage"} THEN
                    [ret |-> Err("InvalidResponse"), http |-> http]
                ELSE IF is_string(Get(Get(in.resp.doc, "value"), "error")) THEN
                    [ret |-> Err(WebdriverError_from(
                                    to_string(Get(Get(in.resp.doc, "value"), "error")))),
                     http |-> http]
                ELSE
                    [ret |-> Ok(Unit), http |-> http]

\* the element identifier key of the WebDriver protocol
ElementKey == "element-6066-11e4-a52e-4f735466cecf"

\* Option<Element>
NoElement == [tag |-> "Ok", val |-> "None"]
SomeElement(id, tab, selector, tofind) ==
    [tag |-> "Ok", val |-> "Some",
     element |-> [id |-> id, tab |-> tab.id, selector |-> selector, tofind |-> tofind]]

\* lines 211-240 of Tab::find: the reading of the answer to POST element
read_element(tab, selector, tofind, resp, http) ==
    IF resp.kind = "fail" THEN
        [ret |-> Err("FailedRequest"), http |-> http]
    ELSE IF resp.kind \in {"notext", "garbage"} THEN
        [ret |-> Err("InvalidResponse"), http |-> http]
    ELSE
        LET value == Get(resp.doc, "value")
        IN  IF ~is_null(Get(value, ElementKey)) THEN
                [ret |-> SomeElement(to_string(Get(value, ElementKey)), tab, selector, tofind),
                 http |-> http]
            ELSE IF is_string(Get(value, "error")) THEN
                LET e == WebdriverError_from(to_string(Get(value, "error")))
                IN  IF e = "NoSuchElement"
                    THEN [ret |-> NoElement, http |-> http]
                    ELSE [ret |-> Err(e), http |-> http]
            ELSE
                [ret |-> Err("InvalidResponse"), http |-> http]

\* Tab::find
find(tab, selector, tofind, in) ==
    LET selected == select(tab, in.current, in.switch)
    IN  IF selected.ret.tag = "Err" THEN selected
        ELSE read_element(tab, selector, tofind, in.resp,
                          Command(tab, selected, "POST", <<"element">>,
                                  JObj([using |-> JStr(selector), value |-> JStr(tofind)]),
                                  in.resp))

\* the title is asked for in place of the url
get_url_asks_title(tab, in) ==
    LET selected == select(tab, in.current, in.switch)
    IN  IF selected.ret.tag = "Err" THEN selected
        ELSE read_string(in.resp,
                         Command(tab, selected, "GET", <<"title">>, NoBody, in.resp))

\* Tab::get_url
get_url(tab, in) ==
    LET selected == select(tab, in.current, in.switch)
    IN  IF selected.ret.tag = "Err" THEN selected
        ELSE read_string(in.resp,
                         Command(tab, selected, "GET", <<"url">>, NoBody, in.resp))

\* Tab::get_title
get_title(tab, in) ==
    LET selected == select(tab, in.current, in.switch)
    IN  IF selected.ret.tag = "Err" THEN selected
        ELSE read_string(in.resp,
                         Command(tab, selected, "GET", <<"title">>, NoBody, in.resp))

\* Tab::back
back(tab, in) ==
    LET selected == select(tab, in.current, in.switch)
    IN  IF selected.ret.tag = "Err" THEN selected
        ELSE read_null(in.resp,
                       Command(tab, selected, "POST", <<"back">>, EmptyObj, in.resp))

\* Tab::forward
forward(tab, in) ==
    LET selected == select(tab, in.current, in.switch)
    IN  IF selected.ret.tag = "Err" THEN selected
        ELSE read_null(in.resp,
                       Command(tab, selected, "POST", <<"forward">>, EmptyObj, in.resp))

\* Tab::refresh
refresh(tab, in) ==
    LET selected == select(tab, in.current, in.switch)
    IN  IF selected.ret.tag = "Err" THEN selected
        ELSE read_null(in.resp,
                       Command(tab, selected, "POST", <<"refresh">>, EmptyObj, in.resp))

\* Tab::execute_script
execute_script(tab, script, args, in) ==
    LET selected == select(tab, in.current, in.switch)
    IN  IF selected.ret.tag = "Err" THEN selected
        ELSE read_null(in.resp,
                       Command(tab, selected, "POST", <<"execute", "sync">>,
                               JObj([script |-> JStr(script),
                                     args |-> JArr([i \in DOMAIN args |-> JStr(args[i])])]),
                               in.resp))

\* ------------------------------------------------------- the WebDriver server
\* The server standing behind localhost:4444: its session, the windows
\* the browser has open, and the window commands currently go to.
ServerValue(sid, handles, current) ==
    [session |-> sid, handles |-> handles, current |-> current]

\* the states a browser can be in right after its session is created
Fresh(sid) ==
    {ServerValue(Some(sid), H, c) :
        H \in SUBSET Handles, c \in Handles \cup {"none"}}

\* the server after it answered ex: a session is created by the POST
\* /session it answered with a session id, the current window changes by
\* the switch it answered with null, and the current window is closed by
\* the DELETE it answered without an error
ServerAfter(s, ex) ==
    IF ex.req.method = "POST" /\ ex.req.path = <<"session">>
       /\ ex.resp.kind = "json" /\ is_string(Get(Get(ex.resp.doc, "value"), "sessionId"))
    THEN {f \in Fresh(to_string(Get(Get(ex.resp.doc, "value"), "sessionId"))) :
            (f.handles = {} /\ f.current = "none") \/ f.current \in f.handles}
    ELSE IF ex.req.method = "POST" /\ Len(ex.req.path) = 3 /\ ex.req.path[3] = "window"
            /\ ex.resp = RJson(Value(JNull)) /\ ex.req.body.o.handle.s \in s.handles
    THEN {[s EXCEPT !.current = ex.req.body.o.handle.s]}
    ELSE IF ex.req.method = "DELETE" /\ Len(ex.req.path) = 3 /\ ex.req.path[3] = "window"
            /\ ex.resp.kind = "json"
            /\ ~is_string(Get(Get(ex.resp.doc, "value"), "error"))
    THEN {[s EXCEPT !.handles = @ \ {s.current}]}
    ELSE {s}

RECURSIVE ServerRun(_, _)
ServerRun(s, http) ==
    IF http = <<>> THEN {s}
    ELSE UNION {ServerRun(s2, Tail(http)) : s2 \in ServerAfter(s, Head(http))}

\* ---- a server that answers as the protocol says
\* Each window keeps its navigation history: the urls visited and the
\* position in them.
MaxHistory == 3
Blank == "about:blank"
Title(url) == IF url = "u1" THEN "t1" ELSE IF url = "u2" THEN "t2" ELSE ""
BlankWindow == [hist |-> <<Blank>>, at |-> 1]

\* the two tabs of the caller
WindowA == AllHandles[1]
WindowB == AllHandles[2]
Windows == {WindowA, WindowB}

Browsing(sid, handles, current, windows) ==
    [session |-> sid, handles |-> handles, current |-> current, windows |-> windows]

Min(a, b) == IF a < b THEN a ELSE b
Max(a, b) == IF a > b THEN a ELSE b

\* the answer of the server in state s to req, and its state afterwards
Answer(s, req) ==
    LET cmd  == SubSeq(req.path, 3, Len(req.path))
        open == s.current \in s.handles
        w    == s.windows[s.current]
        done(after) == [resp |-> RJson(Value(JNull)), after |-> after]
        says(v)     == [resp |-> RJson(Value(v)), after |-> s]
        fails(e)    == [resp |-> RJson(ErrDoc(e)), after |-> s]
    IN  IF Len(req.path) < 3 \/ req.path[1] # "session" \/ s.session # Some(req.path[2]) THEN
            fails("invalid session id")
        ELSE IF cmd = <<"window">> /\ req.method = "POST" THEN
            IF Get(req.body, "handle").t = "str" /\ Get(req.body, "handle").s \in s.handles
            THEN done([s EXCEPT !.current = Get(req.body, "handle").s])
            ELSE fails("no such window")
        ELSE IF ~open THEN
            fails("no such window")
        ELSE IF cmd = <<"window">> /\ req.method = "GET" THEN
            says(JStr(s.current))
        ELSE IF cmd = <<"window">> /\ req.method = "DELETE" THEN
            [resp |-> RJson(Value(JArr(SelectSeq(AllHandles,
                                LAMBDA h : h \in s.handles \ {s.current})))),
             after |-> [s EXCEPT !.handles = @ \ {s.current},
                                 !.windows[s.current] = BlankWindow]]
        ELSE IF cmd = <<"url">> /\ req.method = "POST" THEN
            done([s EXCEPT !.windows[s.current] =
                    [hist |-> Append(SubSeq(w.hist, 1, w.at), Get(req.body, "url").s),
                     at |-> w.at + 1]])
        ELSE IF cmd = <<"url">> /\ req.method = "GET" THEN
            says(JStr(w.hist[w.at]))
        ELSE IF cmd = <<"title">> /\ req.method = "GET" THEN
            says(JStr(Title(w.hist[w.at])))
        ELSE IF cmd = <<"back">> /\ req.method = "POST" THEN
            done([s EXCEPT !.windows[s.current].at = Max(1, w.at - 1)])
        ELSE IF cmd = <<"forward">> /\ req.method = "POST" THEN
            done([s EXCEPT !.windows[s.current].at = Min(Len(w.hist), w.at + 1)])
        ELSE IF cmd = <<"refresh">> /\ req.method = "POST" THEN
            done(s)
        ELSE IF cmd = <<"element">> /\ req.method = "POST" THEN
            IF Get(req.body, "value") = JStr("#there") /\ w.hist[w.at] # Blank
            THEN says(JObj(ElementKey :> JStr("e1")))
            ELSE fails("no such element")
        ELSE IF cmd = <<"execute", "sync">> /\ req.method = "POST" THEN
            done(s)
        ELSE
            fails("unknown command")

\* the server after it served the requests of http, one after the other
RECURSIVE Served(_, _)
Served(s, http) ==
    IF http = <<>> THEN s
    ELSE CHOOSE after \in {Served(a.after, Tail(http)) : a \in {Answer(s, Head(http).req)}} :
            TRUE

\* every response of http is the answer of the server to its request
RECURSIVE Faithful(_, _)
Faithful(s, http) ==
    IF http = <<>> THEN TRUE
    ELSE \E a \in {Answer(s, Head(http).req)} :
            /\ Head(http).resp = a.resp
            /\ Faithful(a.after, Tail(http))

\* ------------------------------------------------------------------ state
VARIABLES
    target,    \* the build target of the client
    server,    \* the WebDriver server and its browser
    session,   \* the client's Session value
    alive,     \* "absent", "live", "failed" (Session::new gave no session), "dropped"
    proc,      \* the driver process this client started, as the client left it:
               \* "none", "running" (never asked to stop), "killed", "kill_failed"
    last,      \* the last call: its name, arguments, the session before, its outcome
    prev       \* the call the caller made before that one, where it keeps it

vars == <<target, server, session, alive, proc, last, prev>>

Call(op, arg, pre, out) == [op |-> op, arg |-> arg, pre |-> pre, out |-> out]
NoCall == [op |-> "none"]

\* the caller is between two calls
Idle == last = NoCall

Init ==
    /\ target \in {tgt \in Targets : TargetOk(tgt)}
    /\ server = ServerValue(None, {}, "none")
    /\ session = NoSession
    /\ alive = "absent"
    /\ proc = "none"
    /\ last = NoCall
    /\ prev = NoCall

New(browser) ==
    /\ Idle
    /\ alive = "absent"
    /\ \E in \in NewInputs :
        LET out == Session_new(browser, target, in)
        IN  /\ session' = out.session
            /\ alive' = IF out.ret.tag = "Ok" THEN "live" ELSE "failed"
            /\ proc' = IF out.started THEN "running" ELSE "none"
            /\ server' \in ServerRun(server, out.http)
            /\ last' = Call("Session::new", browser, session, out)
    /\ UNCHANGED <<target, prev>>

Drop ==
    /\ Idle
    /\ alive = "live"
    /\ \E killOk \in BOOLEAN :
        LET out == Session_drop(session, killOk)
        IN  /\ session' = out.session
            /\ proc' = IF out.kills = <<TRUE>> THEN "killed"
                       ELSE IF out.kills = <<FALSE>> THEN "kill_failed"
                       ELSE proc
            /\ last' = Call("drop", "-", session, out)
    /\ alive' = "dropped"
    /\ UNCHANGED <<target, server, prev>>

\* a query of the session: the session is not changed by it
Query(op, arg, out) ==
    /\ server' \in ServerRun(server, out.http)
    /\ last' = Call(op, arg, session, out)
    /\ UNCHANGED <<target, session, alive, proc, prev>>

HandleLists ==
    {<<>>} \cup {<<h>> : h \in Handles}
    \cup {p \in Handles \X Handles : p[1] # p[2]}

HandlesResponses ==
    CommonResponses
    \cup {RJson(Value(JObj([handles |-> JArr([i \in DOMAIN l |-> JStr(l[i])])]))) :
            l \in HandleLists}

TimeoutNumbers == {JNum(30), JNum(-1)}
TimeoutsResponses ==
    CommonResponses
    \cup {RJson(Value(JObj([pageLoad |-> a, implicit |-> b, script |-> c]))) :
            a \in TimeoutNumbers, b \in TimeoutNumbers \cup {JNull},
            c \in {JNull, JNum(5)}}
    \cup {RJson(Value(JObj([pageLoad |-> JNum(30), implicit |-> JNum(0)])))}

TimeoutsValues ==
    {Timeouts(sc, 30, im) : sc \in {[some |-> FALSE], [some |-> TRUE, v |-> 5]},
                            im \in {0, 30}}

GetAllTabs ==
    /\ Idle
    /\ alive = "live"
    /\ \E resp \in HandlesResponses :
        Query("Session::get_all_tabs", "-", get_all_tabs(session, resp))

GetSelectedTabId ==
    /\ Idle
    /\ alive = "live"
    /\ \E resp \in WindowResponses :
        Query("Session::get_selected_tab_id", "-", get_selected_tab_id(session.id, resp))

GetSelectedTab ==
    /\ Idle
    /\ alive = "live"
    /\ \E resp \in WindowResponses :
        Query("Session::get_selected_tab", "-", get_selected_tab(session, resp))

GetTimeouts ==
    /\ Idle
    /\ alive = "live"
    /\ \E resp \in TimeoutsResponses :
        Query("Session::get_timeouts", "-", get_timeouts(session, resp))

SetTimeouts ==
    /\ Idle
    /\ alive = "live"
    /\ \E t \in TimeoutsValues, resp \in CommonResponses :
        Query("Session::set_timeouts", t, set_timeouts(session, t, resp))

\* the Tab values of this session a caller can hold
Tabs == {Tab_new_from(h, session.id.v) : h \in Handles}

Select ==
    /\ Idle
    /\ alive = "live"
    /\ session.id.some
    /\ \E tab \in Tabs, current \in WindowResponses, switch \in WindowResponses :
        Query("Tab::select", tab, select(tab, current, switch))

\* the call returns: the caller has its result and goes on
Return ==
    /\ ~Idle
    /\ last' = NoCall
    /\ UNCHANGED <<target, server, session, alive, proc, prev>>

Next ==
    \/ \E browser \in Browsers : New(browser)
    \/ Return
    \/ Drop
    \/ GetAllTabs
    \/ GetSelectedTabId
    \/ GetSelectedTab
    \/ GetTimeouts
    \/ SetTimeouts
    \/ Select

Spec == Init /\ [][Next]_vars

\* ---- the session-scoped queries on any Session value, its id absent or not
InitQueries ==
    /\ target \in {tgt \in Targets : TargetOk(tgt) /\ tgt.platform # "Unknow"}
    /\ \E id \in {None} \cup {Some(s) : s \in SessionIds} :
        /\ session = SessionValue(id, <<>>, "None")
        /\ server \in {ServerValue(id, H, c) : H \in SUBSET Handles, c \in Handles \cup {"none"}}
    /\ alive = "live"
    /\ proc = "none"
    /\ last = NoCall
    /\ prev = NoCall

NextQueries ==
    \/ GetAllTabs
    \/ GetSelectedTabId
    \/ GetSelectedTab
    \/ GetTimeouts
    \/ SetTimeouts
    \/ Return

SpecQueries == InitQueries /\ [][NextQueries]_vars

\* ---- the tab operations, the server answering anything
\* answers to the two requests of the selection
CurrentResponses ==
    {RFail, RJson(ErrDoc("no such window"))} \cup {RJson(Value(JStr(h))) : h \in Handles}
SwitchResponses ==
    {RFail, RGarbage, RJson(Value(JNull)), RJson(Value(JNum(5))),
     RJson(ErrDoc("no such window"))}

\* answers to the commands
NullResponses == CommonResponses \cup {RJson(ErrDoc("no such element"))}
CloseResponses ==
    CommonResponses
    \cup {RJson(Value(JArr([i \in DOMAIN l |-> JStr(l[i])]))) : l \in HandleLists}
Urls == {"u1", "u2"}
StringResponses == CommonResponses \cup {RJson(Value(JStr(u))) : u \in Urls}
ElementResponses ==
    CommonResponses
    \cup {RJson(ErrDoc("no such element")),
          RJson(Value(JObj(ElementKey :> JStr("e1")))),
          RJson(Value(JObj(ElementKey :> JNum(3)))),
          RJson(Value(JObj(ElementKey :> JNull))),
          RJson(Value(JObj((ElementKey :> JStr("e1"))
                           @@ [error |-> JStr("no such element")]))),
          RJson(Value(JObj((ElementKey :> JNull)
                           @@ [error |-> JStr("no such element")])))}

Selectors == {"css selector"}
Targets_tofind == {"#there", "#missing"}
Scripts == {[script |-> "return 1;", args |-> <<>>],
            [script |-> "f(arguments[0]);", args |-> <<"a">>]}

\* a tab of a live session is at hand
Ready == Idle /\ alive = "live" /\ session.id.some

Navigate ==
    /\ Ready
    /\ \E tab \in Tabs, url \in Urls,
          in \in TabInputs(CurrentResponses, SwitchResponses, NullResponses) :
           Query("Tab::navigate", [tab |-> tab, url |-> url], navigate(tab, url, in))

Close ==
    /\ Ready
    /\ \E tab \in Tabs, in \in TabInputs(CurrentResponses, SwitchResponses, CloseResponses) :
           Query("Tab::close", [tab |-> tab], close(tab, in))

Find ==
    /\ Ready
    /\ \E tab \in Tabs, selector \in Selectors, tofind \in Targets_tofind,
          in \in TabInputs(CurrentResponses, SwitchResponses, ElementResponses) :
           Query("Tab::find", [tab |-> tab, selector |-> selector, tofind |-> tofind],
                   find(tab, selector, tofind, in))

GetUrl ==
    /\ Ready
    /\ \E tab \in Tabs, in \in TabInputs(CurrentResponses, SwitchResponses, StringResponses) :
           Query("Tab::get_url", [tab |-> tab], get_url(tab, in))

GetTitle ==
    /\ Ready
    /\ \E tab \in Tabs, in \in TabInputs(CurrentResponses, SwitchResponses, StringResponses) :
           Query("Tab::get_title", [tab |-> tab], get_title(tab, in))

Back ==
    /\ Ready
    /\ \E tab \in Tabs, in \in TabInputs(CurrentResponses, SwitchResponses, NullResponses) :
           Query("Tab::back", [tab |-> tab], back(tab, in))

Forward ==
    /\ Ready
    /\ \E tab \in Tabs, in \in TabInputs(CurrentResponses, SwitchResponses, NullResponses) :
           Query("Tab::forward", [tab |-> tab], forward(tab, in))

Refresh ==
    /\ Ready
    /\ \E tab \in Tabs, in \in TabInputs(CurrentResponses, SwitchResponses, NullResponses) :
           Query("Tab::refresh", [tab |-> tab], refresh(tab, in))

ExecuteScript ==
    /\ Ready
    /\ \E tab \in Tabs, sc \in Scripts,
          in \in TabInputs(CurrentResponses, SwitchResponses, NullResponses) :
           Query("Tab::execute_script", [tab |-> tab, script |-> sc.script, args |-> sc.args],
                   execute_script(tab, sc.script, sc.args, in))

\* a live session whose browser has every window open
InitTabs ==
    /\ target \in {tgt \in Targets : TargetOk(tgt) /\ tgt.platform # "Unknow" /\ ~tgt.debug}
    /\ \E sid \in SessionIds :
        /\ session = SessionValue(Some(sid), <<>>, "None")
        /\ server \in {ServerValue(Some(sid), Handles, c) : c \in Handles}
    /\ alive = "live"
    /\ proc = "none"
    /\ last = NoCall
    /\ prev = NoCall

NextTabs ==
    \/ Select
    \/ Navigate
    \/ Close
    \/ Find
    \/ GetUrl
    \/ GetTitle
    \/ Back
    \/ Forward
    \/ Refresh
    \/ ExecuteScript
    \/ SetTimeouts
    \/ Return

SpecTabs == InitTabs /\ [][NextTabs]_vars

\* ---- the tab operations, the server answering as the protocol says
\* the call of operation op with the arguments arg, given the responses in
Perform(op, arg, in) ==
    CASE op = "Tab::select"         -> select(arg, in.current, in.switch)
      [] op = "Tab::navigate"       -> navigate(arg.tab, arg.url, in)
      [] op = "Tab::close"          -> close(arg.tab, in)
      [] op = "Tab::find"           -> find(arg.tab, arg.selector, arg.tofind, in)
      [] op = "Tab::get_url"        -> get_url(arg.tab, in)
      [] op = "Tab::get_title"      -> get_title(arg.tab, in)
      [] op = "Tab::back"           -> back(arg.tab, in)
      [] op = "Tab::forward"        -> forward(arg.tab, in)
      [] op = "Tab::refresh"        -> refresh(arg.tab, in)
      [] op = "Tab::execute_script" -> execute_script(arg.tab, arg.script, arg.args, in)

\* the answers the server can give to the command of a tab operation
ServedResponses ==
    {RJson(Value(JNull)), RJson(ErrDoc("no such window")),
     RJson(ErrDoc("no such element")), RJson(Value(JObj(ElementKey :> JStr("e1"))))}
    \cup {RJson(Value(JStr(u))) : u \in Urls \cup {Blank}}
    \cup {RJson(Value(JStr(Title(u)))) : u \in Urls \cup {Blank}}
    \cup {RJson(Value(JArr(SelectSeq(AllHandles, LAMBDA h : h \in H)))) : H \in SUBSET Windows}

\* a call on tab served by that server: each of its requests, in the
\* order it sends them, gets the answer of the server in the state the
\* requests before it left; the state of the server before the call is
\* kept with it
Served_call(op, arg, tab) ==
    \E current \in {Answer(server, Req("GET", SessionUrl(tab.session_id, <<"window">>),
                                   NoBody)).resp},
       switch \in {Answer(server, Req("POST", SessionUrl(tab.session_id, <<"window">>),
                                  JObj([handle |-> JStr(tab.id)]))).resp},
       resp \in ServedResponses :
        \E out \in {Perform(op, arg, [current |-> current, switch |-> switch,
                                      resp |-> resp])} :
            /\ Faithful(server, out.http)
            /\ server' = Served(server, out.http)
            /\ last' = [op |-> op, arg |-> arg, pre |-> session, out |-> out,
                        before |-> server]
            /\ UNCHANGED <<target, session, alive, proc, prev>>

NTabs == {Tab_new_from(h, session.id.v) : h \in Windows}

NSelect ==
    /\ Ready
    /\ \E tab \in NTabs : Served_call("Tab::select", tab, tab)

NNavigate ==
    /\ Ready
    /\ \E tab \in NTabs, url \in Urls :
        /\ server.windows[tab.id].at < MaxHistory
        /\ Served_call("Tab::navigate", [tab |-> tab, url |-> url], tab)

NClose ==
    /\ Ready
    /\ \E tab \in NTabs : Served_call("Tab::close", [tab |-> tab], tab)

NFind ==
    /\ Ready
    /\ \E tab \in NTabs, selector \in Selectors, tofind \in Targets_tofind :
        Served_call("Tab::find", [tab |-> tab, selector |-> selector, tofind |-> tofind], tab)

NGetUrl ==
    /\ Ready
    /\ \E tab \in NTabs : Served_call("Tab::get_url", [tab |-> tab], tab)

NGetTitle ==
    /\ Ready
    /\ \E tab \in NTabs : Served_call("Tab::get_title", [tab |-> tab], tab)

NBack ==
    /\ Ready
    /\ \E tab \in NTabs : Served_call("Tab::back", [tab |-> tab], tab)

NForward ==
    /\ Ready
    /\ \E tab \in NTabs : Served_call("Tab::forward", [tab |-> tab], tab)

NRefresh ==
    /\ Ready
    /\ \E tab \in NTabs : Served_call("Tab::refresh", [tab |-> tab], tab)

NExecuteScript ==
    /\ Ready
    /\ \E tab \in NTabs, sc \in Scripts :
        Served_call("Tab::execute_script",
                    [tab |-> tab, script |-> sc.script, args |-> sc.args], tab)

\* a live session with two open tabs, one of them selected
InitServed ==
    /\ target = [family |-> "unix", platform |-> "Linux", debug |-> FALSE]
    /\ \E sid \in {AllSessionIds[1]} :
        /\ session = SessionValue(Some(sid), <<>>, "None")
        /\ server \in {Browsing(Some(sid), Windows, c, [h \in Windows |-> BlankWindow]) :
                        c \in Windows}
    /\ alive = "live"
    /\ proc = "none"
    /\ last = NoCall
    /\ prev = NoCall

NextServed ==
    \/ NSelect
    \/ NNavigate
    \/ NClose
    \/ NFind
    \/ NGetUrl
    \/ NGetTitle
    \/ NBack
    \/ NForward
    \/ NRefresh
    \/ NExecuteScript
    \/ Return

SpecServed == InitServed /\ [][NextServed]_vars

\* ---- the caller keeps the call before the last one
Remember ==
    /\ ~Idle
    /\ prev' = last
    /\ last' = NoCall
    /\ UNCHANGED <<target, server, session, alive, proc>>

NextRepeat ==
    \/ NSelect
    \/ NNavigate
    \/ NClose
    \/ Remember

SpecRepeat == InitServed /\ [][NextRepeat]_vars


\* ================================================================ properties
IsNew == last.op = "Session::new"
TransportFailure == Err("FailedRequest")
FirstAttempt == last.out.attempts[1]
SessionPosts ==
    {i \in DOMAIN last.out.http :
        last.out.http[i].req.method = "POST" /\ last.out.http[i].req.path = <<"session">>}

\* C1: whenever the first creation attempt of Session::new ends in a
\* transport failure, exactly one driver process is spawned, exactly one
\* further attempt is made, and that attempt's outcome is what is returned.
C1_OneSpawnOneRetry ==
    (IsNew /\ FirstAttempt = TransportFailure) =>
        /\ Len(last.out.spawns) = 1
        /\ last.out.started
        /\ Len(last.out.attempts) = 2
        /\ last.out.ret = last.out.attempts[2]

\* C2: a first attempt that ends in anything but a transport failure is
\* returned at once: no driver is spawned, no second attempt is made.
C2_OtherOutcomesReturnedAtOnce ==
    (IsNew /\ FirstAttempt # TransportFailure) =>
        /\ last.out.spawns = <<>>
        /\ ~last.out.started
        /\ proc = "none"
        /\ last.out.attempts = <<last.out.ret>>
        /\ Cardinality(SessionPosts) <= 1

C2_Witness ==
    /\ IsNew
    /\ FirstAttempt = Err("SessionNotCreated")
    /\ last.out.ret = Err("SessionNotCreated")

\* C3 as stated: off unix (Windows included) a transport failure on the
\* first attempt spawns nothing, retries nothing and returns FailedRequest.
C3_FallbackOnlyOnUnix ==
    (IsNew /\ target.family # "unix" /\ FirstAttempt = TransportFailure) =>
        /\ last.out.spawns = <<>>
        /\ Len(last.out.attempts) = 1
        /\ last.out.ret = TransportFailure

\* C3 amended: the fallback launch happens on unix and on Windows alike,
\* and nowhere else: on either, a transport failure on the first attempt
\* asks for exactly one driver launch (the .exe drivers on Windows) and,
\* once the driver has started, makes exactly one retry; without such a
\* failure on one of these two platforms nothing is launched.
C3_FallbackOnUnixAndWindows ==
    IsNew =>
        /\ (target.family \in {"unix", "windows"} /\ FirstAttempt = TransportFailure) =>
              /\ Len(last.out.spawns) = 1
              /\ (target.family = "windows") =
                    (last.out.spawns[1].cmd \in {"geckodriver.exe", "chromedriver.exe"})
              /\ last.out.started => Len(last.out.attempts) = 2
        /\ last.out.spawns # <<>> =>
              (target.family \in {"unix", "windows"} /\ FirstAttempt = TransportFailure)

C3_Witness ==
    /\ IsNew
    /\ target.family = "windows"
    /\ FirstAttempt = TransportFailure
    /\ last.out.started
    /\ Len(last.out.attempts) = 2

\* C4: on an unrecognised platform Session::new returns
\* UnsupportedPlatform, no request is sent and nothing is spawned.
C4_UnknownPlatformFailsFirst ==
    (IsNew /\ target.platform = "Unknow") =>
        /\ last.out.ret = Err("UnsupportedPlatform")
        /\ last.out.http = <<>>
        /\ last.out.spawns = <<>>
        /\ proc = "none"
        /\ server.session = None

C4_Witness ==
    /\ IsNew
    /\ target.platform = "Unknow"
    /\ last.out.ret = Err("UnsupportedPlatform")

\* C5: a driver process spawned by Session::new is never left running by
\* a finished call: once Session::new has returned an error, or the
\* session it returned has been dropped, the process has been asked to stop.
C5_SpawnedProcessReleased ==
    alive \in {"failed", "dropped"} => proc # "running"

\* C6: after a successful Session::new the session's id is the sessionId
\* of the response that succeeded, and the session holds a process handle
\* exactly when this call started a driver (first attempt a transport
\* failure, retry successful); a session of the first attempt holds none.
C6_IdAndProcessHandle ==
    (IsNew /\ last.out.ret.tag = "Ok") =>
        LET answer == last.out.http[Len(last.out.http)].resp
        IN  /\ session.id = Some(answer.doc.o.value.o.sessionId.s)
            /\ (session.webdriver_process = "Some") = last.out.started
            /\ last.out.started =
                  (Len(last.out.attempts) = 2 /\ FirstAttempt = TransportFailure)
            /\ Len(last.out.attempts) = 1 => session.webdriver_process = "None"

C6_Witness ==
    /\ IsNew
    /\ last.out.ret.tag = "Ok"
    /\ last.out.started
    /\ session.webdriver_process = "Some"
    /\ session.id = Some(AllSessionIds[MaxSessionIds])

\* C7: after a successful Session::new the ids of the session's known
\* tabs are the window handles open on the server.
C7_InitialTabsAreOpenHandles ==
    (IsNew /\ last.out.ret.tag = "Ok") =>
        {session.tabs[i].id : i \in DOMAIN session.tabs} = server.handles

\* C8: dropping a Session sends no request; it kills the driver process
\* exactly once when the session holds one and never otherwise; a failed
\* kill is not raised.
C8_DropKillsOwnedProcessOnly ==
    last.op = "drop" =>
        /\ last.out.http = <<>>
        /\ Len(last.out.kills) = (IF last.pre.webdriver_process = "Some" THEN 1 ELSE 0)
        /\ last.out.ret = Ok(Unit)
        /\ session.webdriver_process = "None"

C8_Witness ==
    /\ last.op = "drop"
    /\ last.pre.webdriver_process = "Some"
    /\ last.out.kills = <<FALSE>>
    /\ proc = "kill_failed"

\* C9: on a Session whose id is absent, get_all_tabs, get_selected_tab_id,
\* get_selected_tab, get_timeouts and set_timeouts return an error and
\* send no request.
SessionScoped ==
    {"Session::get_all_tabs", "Session::get_selected_tab_id", "Session::get_selected_tab",
     "Session::get_timeouts", "Session::set_timeouts"}

C9_AbsentIdFailsFast ==
    (last.op \in SessionScoped /\ ~last.pre.id.some) =>
        /\ last.out.ret.tag = "Err"
        /\ last.out.http = <<>>

C9_Witness ==
    /\ last.op = "Session::get_selected_tab"
    /\ ~last.pre.id.some
    /\ last.out.ret = Err("NoSuchWindow")

\* C10: Tab::select first sends one GET for the current window; when the
\* handle reported equals the tab's id it returns Ok with no switch sent;
\* when the handle reported differs it sends exactly one POST with body
\* {handle: <tab id>} and returns Ok exactly when the value of that
\* response is null.
Reported(resp) ==
    IF resp.kind = "json" /\ Get(resp.doc, "value").t = "str"
    THEN Some(Get(resp.doc, "value").s)
    ELSE None

C10_SelectSkipsOrSwitches ==
    last.op = "Tab::select" =>
        LET http == last.out.http
            tab  == last.arg
        IN  /\ Len(http) >= 1
            /\ http[1].req = Req("GET", <<"session", tab.session_id, "window">>, NoBody)
            /\ Reported(http[1].resp) = Some(tab.id) =>
                  (last.out.ret = Ok(Unit) /\ Len(http) = 1)
            /\ (Reported(http[1].resp).some /\ Reported(http[1].resp) # Some(tab.id)) =>
                  /\ Len(http) = 2
                  /\ http[2].req = Req("POST", <<"session", tab.session_id, "window">>,
                                       JObj([handle |-> JStr(tab.id)]))
                  /\ (last.out.ret = Ok(Unit)) =
                        (http[2].resp.kind = "json"
                         /\ Get(http[2].resp.doc, "value").t = "null")

C10_Witness ==
    /\ last.op = "Tab::select"
    /\ Reported(last.out.http[1].resp).some
    /\ Reported(last.out.http[1].resp) # Some(last.arg.id)
    /\ Len(last.out.http) = 2
    /\ last.out.ret = Ok(Unit)
    /\ server.current = last.arg.id

\* ---- tab discovery
IsDiscovery == last.op = "Session::get_all_tabs"

\* the handles a response to GET window/handles lists, when it lists any
ReportedHandles(resp) ==
    IF resp.kind = "json" /\ Get(Get(resp.doc, "value"), "handles").t = "arr"
    THEN Some([i \in DOMAIN resp.doc.o.value.o.handles.a |->
                  to_string(resp.doc.o.value.o.handles.a[i])])
    ELSE None

Ids(tabs) == [i \in DOMAIN tabs |-> tabs[i].id]

\* C19: for a response listing the handles h1..hn, get_all_tabs yields
\* one Tab per reported handle, with the ids h1..hn in the reported order.
C19_OneTabPerReportedHandle ==
    (IsDiscovery /\ last.pre.id.some /\ ReportedHandles(last.out.http[1].resp).some) =>
        /\ last.out.ret.tag = "Ok"
        /\ Ids(last.out.ret.tabs) = ReportedHandles(last.out.http[1].resp).v

\* C20: after a successful discovery every reported handle is the id of
\* one of the session's tabs, and the tabs known before are still there,
\* in front.
C20_DiscoveryAppendsToSession ==
    (IsDiscovery /\ last.out.ret.tag = "Ok") =>
        /\ \A h \in {ReportedHandles(last.out.http[1].resp).v[i] :
                        i \in DOMAIN ReportedHandles(last.out.http[1].resp).v} :
              \E i \in DOMAIN session.tabs : session.tabs[i].id = h
        /\ Len(session.tabs) >= Len(last.pre.tabs)
        /\ SubSeq(session.tabs, 1, Len(last.pre.tabs)) = last.pre.tabs

\* ---- tab operations
TabOps ==
    {"Tab::navigate", "Tab::close", "Tab::find", "Tab::get_url", "Tab::get_title",
     "Tab::back", "Tab::forward", "Tab::refresh", "Tab::execute_script"}

\* the tab a call was made on
TabOf(call) == IF call.op = "Tab::select" THEN call.arg ELSE call.arg.tab

WindowUrl(tab) == <<"session", tab.session_id, "window">>
IsCurrentQuery(req, tab) == req = Req("GET", WindowUrl(tab), NoBody)
IsSwitch(req, tab) == req = Req("POST", WindowUrl(tab), JObj([handle |-> JStr(tab.id)]))

\* the outcome the value == null commands give a response
NullShape(resp) ==
    IF resp.kind = "fail" THEN Err("FailedRequest")
    ELSE IF resp.kind # "json" THEN Err("InvalidResponse")
    ELSE IF Get(resp.doc, "value").t = "null" THEN Ok(Unit)
    ELSE IF Get(Get(resp.doc, "value"), "error").t = "str"
         THEN Err(WebdriverError_from(Get(Get(resp.doc, "value"), "error").s))
    ELSE Err("InvalidResponse")

\* the exchanges of the selection step of a call, and what the step returned
SelectionExchanges(call) ==
    {i \in DOMAIN call.out.http :
        \/ IsCurrentQuery(call.out.http[i].req, TabOf(call))
        \/ IsSwitch(call.out.http[i].req, TabOf(call))}

SelectionResult(call) ==
    LET http == call.out.http
    IN  IF Reported(http[1].resp) = Some(TabOf(call).id) THEN Ok(Unit)
        ELSE IF Len(http) >= 2 /\ IsSwitch(http[2].req, TabOf(call))
        THEN NullShape(http[2].resp)
        ELSE [tag |-> "unknown"]

\* the exchange of the call's own command, when it was sent
CommandSent(call) == DOMAIN call.out.http \ SelectionExchanges(call)
CommandResponse(call) ==
    call.out.http[CHOOSE i \in CommandSent(call) : TRUE].resp

\* C12: when the selection step of a tab operation returns an error, the
\* operation returns that same error and its own command is never sent.
C12_SelectionErrorAborts ==
    (last.op \in TabOps /\ SelectionResult(last).tag # "Ok") =>
        /\ SelectionResult(last).tag = "Err"
        /\ last.out.ret = SelectionResult(last)
        /\ CommandSent(last) = {}

C12_Witness ==
    /\ last.op = "Tab::close"
    /\ SelectionResult(last) = Err("NoSuchWindow")
    /\ last.out.ret = Err("NoSuchWindow")
    /\ Len(last.out.http) = 2

\* C16: each command whose success is value == null gives its response
\* exactly one outcome: Ok for JSON with a null value, the typed error for
\* a string value.error, InvalidResponse for a body that is not JSON or a
\* value that is neither, FailedRequest for a request that failed.
NullShapeOps ==
    {"Tab::navigate", "Tab::back", "Tab::forward", "Tab::refresh", "Tab::execute_script"}

C16_NullShapeClassification ==
    /\ (last.op \in NullShapeOps /\ CommandSent(last) # {}) =>
          /\ Cardinality(CommandSent(last)) = 1
          /\ last.out.ret = NullShape(CommandResponse(last))
    /\ (last.op = "Tab::select" /\ Len(last.out.http) = 2) =>
          last.out.ret = NullShape(last.out.http[2].resp)
    /\ (last.op = "Session::set_timeouts" /\ last.pre.id.some) =>
          /\ Len(last.out.http) = 1
          /\ last.out.ret = NullShape(last.out.http[1].resp)

C16_Witness ==
    /\ last.op = "Tab::navigate"
    /\ CommandSent(last) # {}
    /\ CommandResponse(last) = RJson(ErrDoc("no such element"))
    /\ last.out.ret = Err("NoSuchElement")

\* C17: find returns Ok(None) exactly when the answer is the protocol
\* error of NoSuchElement, the typed error for every other protocol
\* error, and Ok(Some(element)) only when the answer carries the element
\* key as a string.
ProtocolError(resp) ==
    IF resp.kind = "json" /\ Get(Get(resp.doc, "value"), "error").t = "str"
    THEN Some(WebdriverError_from(Get(Get(resp.doc, "value"), "error").s))
    ELSE None

C17_FindClassification ==
    (last.op = "Tab::find" /\ CommandSent(last) # {}) =>
        LET resp == CommandResponse(last)
        IN  /\ (last.out.ret = NoElement) = (ProtocolError(resp) = Some("NoSuchElement"))
            /\ (ProtocolError(resp).some /\ ProtocolError(resp) # Some("NoSuchElement")) =>
                  last.out.ret = Err(ProtocolError(resp).v)
            /\ (last.out.ret.tag = "Ok" /\ last.out.ret.val = "Some") =>
                  (resp.kind = "json"
                   /\ Get(Get(resp.doc, "value"), ElementKey).t = "str")

\* C18: close returns Ok for every JSON response whose value has no
\* string error field, the typed error when value.error is a string,
\* InvalidResponse for a body that is not JSON and FailedRequest for a
\* request that failed.
CloseShape(resp) ==
    IF resp.kind = "fail" THEN Err("FailedRequest")
    ELSE IF resp.kind # "json" THEN Err("InvalidResponse")
    ELSE IF ProtocolError(resp).some THEN Err(ProtocolError(resp).v)
    ELSE Ok(Unit)

C18_CloseClassification ==
    (last.op = "Tab::close" /\ CommandSent(last) # {}) =>
        /\ CommandSent(last) = {Len(last.out.http)}
        /\ last.out.http[Len(last.out.http)].req =
              Req("DELETE", WindowUrl(TabOf(last)), NoBody)
        /\ last.out.ret = CloseShape(CommandResponse(last))

C18_Witness ==
    /\ last.op = "Tab::close"
    /\ CommandSent(last) # {}
    /\ CommandResponse(last) = RJson(Value(JNum(5)))
    /\ last.out.ret = Ok(Unit)

\* ---- tab operations against the server that answers as the protocol says
\* the tab is open and is the window the server has selected
SelectedIn(s, tab) == s.current = tab.id /\ tab.id \in s.handles

\* the url window h of the server shows
UrlOf(s, h) == s.windows[h].hist[s.windows[h].at]

IsSelect(call) == call.op = "Tab::select"

\* C11 as stated: select() twice in a row on a tab that is already the
\* selected window issues at most one network call in total.
C11_TwoSelectsOneCall ==
    (IsSelect(prev) /\ IsSelect(last) /\ prev.arg = last.arg
     /\ SelectedIn(prev.before, prev.arg)) =>
        Len(prev.out.http) + Len(last.out.http) <= 1

\* C11 amended: each of two select() calls in a row on a tab that is
\* already the selected window sends exactly one request, the GET for the
\* current window, and no switch; both return Ok and the selected window
\* stays what it was.
C11_EachSelectAsksOnce ==
    (IsSelect(prev) /\ IsSelect(last) /\ prev.arg = last.arg
     /\ SelectedIn(prev.before, prev.arg)) =>
        /\ Len(prev.out.http) = 1 /\ IsCurrentQuery(prev.out.http[1].req, prev.arg)
        /\ Len(last.out.http) = 1 /\ IsCurrentQuery(last.out.http[1].req, last.arg)
        /\ prev.out.ret = Ok(Unit)
        /\ last.out.ret = Ok(Unit)
        /\ server = prev.before

C11_Witness ==
    /\ IsSelect(prev) /\ IsSelect(last) /\ prev.arg = last.arg
    /\ SelectedIn(prev.before, prev.arg)
    /\ Len(prev.out.http) + Len(last.out.http) = 2
    /\ last.out.ret = Ok(Unit)

\* C13: with two tabs, whatever the operations made on them so far, the
\* command of a tab operation is sent only while the tab it was called on
\* is the selected window of the server, and the page of the other window
\* is what it was before the call.
C13_CommandGoesToItsTab ==
    (last.op \in TabOps /\ CommandSent(last) # {}) =>
        LET i == CHOOSE j \in CommandSent(last) : TRUE
            tab == TabOf(last)
        IN  /\ SelectedIn(Served(last.before, SubSeq(last.out.http, 1, i - 1)), tab)
            /\ server.current = tab.id
            /\ \A h \in Windows \ {tab.id} : server.windows[h] = last.before.windows[h]

C13_Witness ==
    /\ last.op = "Tab::navigate"
    /\ last.out.ret = Ok(Unit)
    /\ TabOf(last).id = WindowA
    /\ last.before.current = WindowB
    /\ UrlOf(last.before, WindowB) = "u1"
    /\ UrlOf(server, WindowB) = "u1"
    /\ UrlOf(server, WindowA) = "u2"
    /\ server.current = WindowA

\* C14: after close() succeeded on one tab, select() on another tab that
\* is still open returns Ok and makes it the selected window.
C14_SelectAfterClose ==
    (prev.op = "Tab::close" /\ prev.out.ret = Ok(Unit) /\ IsSelect(last)
     /\ last.arg.id # prev.arg.tab.id /\ last.arg.id \in last.before.handles) =>
        /\ last.out.ret = Ok(Unit)
        /\ SelectedIn(server, last.arg)

C14_Witness ==
    /\ prev.op = "Tab::close" /\ prev.out.ret = Ok(Unit)
    /\ prev.arg.tab.id = WindowB
    /\ IsSelect(last) /\ last.arg.id = WindowA
    /\ last.before.current \notin last.before.handles
    /\ Len(last.out.http) = 2
    /\ last.out.ret = Ok(Unit)
    /\ SelectedIn(server, last.arg)

\* C15: against a server that keeps the history of each window: navigate(u)
\* puts u after the page shown and shows it, back() and forward() move one
\* step in the history and stay inside it, refresh() changes nothing, and
\* get_url returns the url the window shows. So after navigate(u1) and
\* navigate(u2), back() shows u1 and forward() shows u2 again.
C15_NavigationHistory ==
    (last.op \in TabOps /\ TabOf(last).id \in last.before.handles) =>
        LET b == last.before.windows[TabOf(last).id]
            a == server.windows[TabOf(last).id]
        IN  /\ last.op = "Tab::navigate" =>
                /\ last.out.ret = Ok(Unit)
                /\ a.at = b.at + 1 /\ Len(a.hist) = a.at
                /\ a.hist[a.at] = last.arg.url
                /\ SubSeq(a.hist, 1, b.at) = SubSeq(b.hist, 1, b.at)
            /\ last.op = "Tab::back" =>
                /\ last.out.ret = Ok(Unit)
                /\ a.hist = b.hist
                /\ a.at = (IF b.at > 1 THEN b.at - 1 ELSE 1)
            /\ last.op = "Tab::forward" =>
                /\ last.out.ret = Ok(Unit)
                /\ a.hist = b.hist
                /\ a.at = (IF b.at < Len(b.hist) THEN b.at + 1 ELSE b.at)
            /\ last.op = "Tab::refresh" =>
                /\ last.out.ret = Ok(Unit)
                /\ a = b
            /\ last.op = "Tab::get_url" =>
                /\ last.out.ret = Ok(b.hist[b.at])
                /\ a = b

C15_Witness ==
    /\ last.op = "Tab::back"
    /\ last.out.ret = Ok(Unit)
    /\ last.before.current # TabOf(last).id
    /\ last.before.windows[TabOf(last).id] = [hist |-> <<Blank, "u1", "u2">>, at |-> 3]
    /\ UrlOf(server, TabOf(last).id) = "u1"
    /\ server.current = TabOf(last).id

\* ---- timeouts
IsGetTimeouts == last.op = "Session::get_timeouts"

\* the answer gives pageLoad and implicit as numbers
NumericTimeouts(resp) ==
    /\ resp.kind = "json"
    /\ Get(Get(resp.doc, "value"), "pageLoad").t = "num"
    /\ Get(Get(resp.doc, "value"), "implicit").t = "num"

\* C24: get_timeouts returns Ok(Timeouts) for every response whose
\* value.pageLoad and value.implicit are numbers, whatever numbers they
\* are, with script None when value.script is absent or null; in every
\* other case it returns an error value; it never panics.
C24_GetTimeoutsNeverPanics ==
    (IsGetTimeouts /\ last.pre.id.some) =>
        /\ last.out.ret.tag # "Panic"
        /\ NumericTimeouts(last.out.http[1].resp) =>
              /\ last.out.ret.tag = "Ok"
              /\ Get(Get(last.out.http[1].resp.doc, "value"), "script").t = "null" =>
                    ~last.out.ret.timeouts.script.some
        /\ ~NumericTimeouts(last.out.http[1].resp) => last.out.ret.tag = "Err"

\* C27: every failure of session creation, the failure to start the
\* fallback driver included, comes back as a WebdriverError value:
\* Session::new never panics.
C27_NewNeverPanics ==
    IsNew => last.out.ret.tag \in {"Ok", "Err"}


\* ---- capabilities payload
\* the vendor namespace of a browser's options
VendorKey(browser) ==
    IF browser = "Firefox" THEN "moz:firefoxOptions" ELSE "goog:chromeOptions"
VendorKeys == {"moz:firefoxOptions", "goog:chromeOptions"}
HeadlessOptions == JObj([args |-> JArr(<<JStr("-headless")>>)])
MatchOf(body) == Get(Get(body, "capabilities"), "alwaysMatch")
HasVendorOptions(body) == \E k \in VendorKeys : Get(MatchOf(body), k) # JNull
\* the payloads Session::new(browser) builds over the builds of the crate
PayloadsFor(browser) ==
    {post_data(browser, tgt) : tgt \in {t \in Targets : TargetOk(t)}}

InitProgram ==
    /\ Init
    /\ target = [family |-> "unix", platform |-> "Linux", debug |-> FALSE]

NextProgram ==
    \/ Next
    \/ Navigate
    \/ Close
    \/ Find
    \/ GetUrl
    \/ GetTitle
    \/ Back
    \/ Forward
    \/ Refresh
    \/ ExecuteScript

SpecProgram == InitProgram /\ [][NextProgram]_vars


\* ---- failures of requests
\* the members of an answer that creation and find read as their result
ResultMembers == {"sessionId", ElementKey}
\* a request that failed: nothing came back, or the answer is an error
\* of the protocol that carries no result beside it
Failure(resp) ==
    \/ resp.kind = "fail"
    \/ /\ ProtocolError(resp).some
       /\ DOMAIN Get(resp.doc, "value").o \cap ResultMembers = {}
IsCall == last.op \notin {"none", "drop"}
IsDrop == last.op = "drop"
SelectingOps == TabOps \cup {"Tab::select"}

\* C28 as stated: an operation of which any request failed or was
\* answered with a protocol error does not return success.
C28_NoFailureSwallowed ==
    IsCall =>
        \A i \in DOMAIN last.out.http :
            Failure(last.out.http[i].resp) => last.out.ret.tag # "Ok"

\* C28 amended: a failure of the last request an operation sends never
\* gives success, but for find, which turns "no such element" into
\* Ok(None); a failed request is followed by another one only when it is
\* the current-window GET of a selection or the first POST /session of a
\* creation that failed at transport; the drop of the session returns
\* nothing whatever the kill of the driver process gave.
C28_OnlyEarlierFailuresIgnored ==
    /\ IsCall =>
          LET http == last.out.http
              n == Len(http)
          IN  /\ (n > 0 /\ Failure(http[n].resp)) =>
                    \/ last.out.ret.tag # "Ok"
                    \/ /\ last.op = "Tab::find"
                       /\ ProtocolError(http[n].resp) = Some("NoSuchElement")
                       /\ last.out.ret = NoElement
              /\ \A i \in 1..(n - 1) :
                    Failure(http[i].resp) =>
                        \/ /\ last.op \in SelectingOps
                           /\ i = 1
                           /\ IsCurrentQuery(http[i].req, TabOf(last))
                        \/ /\ IsNew
                           /\ i = 1
                           /\ n = 2
                           /\ http[i].resp.kind = "fail"
    /\ IsDrop => last.out.ret = Ok(Unit)

C28_Witness ==
    /\ IsSelect(last)
    /\ Len(last.out.http) = 2
    /\ last.out.http[1].resp.kind = "fail"
    /\ ~Failure(last.out.http[2].resp)
    /\ last.out.ret = Ok(Unit)


\* ---- atomicity
\* C29: a tab operation that returns an error has changed nothing on the
\* server: the server, its selected window included, is after the call
\* what it was before.
C29_FailedOperationChangesNothing ==
    [][(last'.op \in TabOps /\ last'.out.ret.tag = "Err") => server' = server]_vars


\* ---- the session and its tabs: opening, discovery, comparison, timeouts
\* a server that keeps the timeouts posted to it
StoringServer(sid, handles, current, timeouts) ==
    ServerValue(sid, handles, current) @@ [timeouts |-> timeouts]

NewTabResponses ==
    CommonResponses \cup {RJson(Value(JObj([handle |-> JStr(h)]))) : h \in Handles}
\* the Tab values a caller can hold, of this session and of others
AnyTabs == {Tab_new_from(h, sid) : h \in Handles, sid \in SessionIds}

\* the handle of the window an answer to POST window/new tells of
OpenedHandle(resp) ==
    IF resp.kind = "json" /\ Get(Get(resp.doc, "value"), "handle").t = "str"
    THEN Some(Get(Get(resp.doc, "value"), "handle").s)
    ELSE None

\* the server opens a window of a handle it has not given out yet
NewTab ==
    /\ Ready
    /\ \E resp \in NewTabResponses :
        /\ OpenedHandle(resp).some => OpenedHandle(resp).v \notin server.handles
        /\ \E out \in {Tab_new(session, resp)} :
            /\ session' = out.session
            /\ server' = IF out.ret.tag = "Ok"
                         THEN [server EXCEPT !.handles = @ \cup {out.ret.tab.id}]
                         ELSE server
            /\ last' = Call("Tab::new", "-", session, out)
    /\ UNCHANGED <<target, alive, proc, prev>>

Discover ==
    /\ Ready
    /\ \E resp \in HandlesResponses :
        \E out \in {get_all_tabs(session, resp)} :
            /\ session' = out.session
            /\ last' = Call("Session::get_all_tabs", "-", session, out)
    /\ UNCHANGED <<target, server, alive, proc, prev>>

Compare ==
    /\ Ready
    /\ \E a \in Tabs, b \in AnyTabs :
        last' = Call("Tab::eq", [a |-> a, b |-> b], session,
                     [ret |-> [tag |-> "bool", val |-> Tab_eq(a, b)],
                      session |-> session, http |-> <<>>])
    /\ UNCHANGED <<target, server, session, alive, proc, prev>>

\* the server stores the timeouts of a POST it answers with null
StoreTimeouts ==
    /\ Ready
    /\ \E t \in TimeoutsValues, resp \in {RJson(Value(JNull)), RFail} :
        \E out \in {set_timeouts(session, t, resp)} :
            /\ server' = IF resp = RJson(Value(JNull))
                         THEN [server EXCEPT !.timeouts = out.http[1].req.body]
                         ELSE server
            /\ last' = Call("Session::set_timeouts", t, session, out)
    /\ UNCHANGED <<target, session, alive, proc, prev>>

\* the server answers with the timeouts it keeps
FetchTimeouts ==
    /\ Ready
    /\ \E resp \in {RJson(Value(server.timeouts)), RFail} :
        last' = Call("Session::get_timeouts", "-", session, get_timeouts(session, resp))
    /\ UNCHANGED <<target, server, session, alive, proc, prev>>

\* a session just created, its browser showing one window
InitSession ==
    /\ target = [family |-> "unix", platform |-> "Linux", debug |-> FALSE]
    /\ session = SessionValue(Some(AllSessionIds[1]), <<>>, "None")
    /\ server = StoringServer(Some(AllSessionIds[1]), {AllHandles[1]}, AllHandles[1],
                              Timeouts_to_json(Timeouts(Some(5), 30, 30)))
    /\ alive = "live"
    /\ proc = "none"
    /\ last = NoCall
    /\ prev = NoCall

NextSession ==
    \/ NewTab
    \/ Discover
    \/ Compare
    \/ StoreTimeouts
    \/ FetchTimeouts
    \/ Remember

SpecSession == InitSession /\ [][NextSession]_vars


\* ---- properties of the session and its tabs
\* C21: a discovery run right after another one, answered as the first
\* was, leaves the session with as many tabs as the first run left it.
C21_RepeatedDiscoveryKeepsCount ==
    (/\ prev.op = "Session::get_all_tabs"
     /\ last.op = "Session::get_all_tabs"
     /\ last.out.http = prev.out.http) =>
        /\ session = last.out.session
        /\ Len(session.tabs) = Len(prev.out.session.tabs)

C21_Witness ==
    /\ prev.op = "Session::get_all_tabs"
    /\ last.op = "Session::get_all_tabs"
    /\ last.out.http = prev.out.http
    /\ prev.out.ret.tag = "Ok"
    /\ Len(prev.out.ret.tabs) > 0
    /\ Len(session.tabs) > 0

C23_TabsEqualByIdOnly ==
    last.op = "Tab::eq" =>
        (last.out.ret.val <=> (last.arg.a.id = last.arg.b.id))

C23_Witness ==
    /\ last.op = "Tab::eq"
    /\ last.arg.a.id = last.arg.b.id
    /\ last.arg.a.session_id # last.arg.b.session_id
    /\ last.out.ret.val

\* C25: a get_timeouts answered by the server right after a set_timeouts(t)
\* that succeeded on it returns Ok with timeouts equal to t.
C25_TimeoutsRoundTrip ==
    (/\ prev.op = "Session::set_timeouts"
     /\ prev.out.ret = Ok(Unit)
     /\ IsGetTimeouts
     /\ last.out.http[1].resp.kind = "json") =>
        /\ last.out.ret.tag = "Ok"
        /\ last.out.ret.timeouts = prev.arg

C25_Witness ==
    /\ prev.op = "Session::set_timeouts"
    /\ prev.out.ret = Ok(Unit)
    /\ ~prev.arg.script.some
    /\ IsGetTimeouts
    /\ last.out.ret.tag = "Ok"
    /\ last.out.ret.timeouts = prev.arg


\* ---- requests of one operation
\* the places of the three kinds of request among the exchanges of a call
\* on a tab
QueriesAt(call) ==
    {i \in DOMAIN call.out.http : IsCurrentQuery(call.out.http[i].req, TabOf(call))}
SwitchesAt(call) ==
    {i \in DOMAIN call.out.http : IsSwitch(call.out.http[i].req, TabOf(call))}

\* C30: a tab operation sends the current-window GET, the window-switch
\* POST and its own command at most once each and in that order, three
\* requests at most; a selection sends no command and a query of the
\* session one request at most; Session::new sends at most two requests,
\* both POST /session.
C30_NothingRetried ==
    /\ last.op \in SelectingOps =>
          /\ Len(last.out.http) <= 3
          /\ Cardinality(QueriesAt(last)) <= 1
          /\ Cardinality(SwitchesAt(last)) <= 1
          /\ Cardinality(CommandSent(last)) <= 1
          /\ \A q \in QueriesAt(last) : q = 1
          /\ \A w \in SwitchesAt(last) : w = 2 /\ QueriesAt(last) = {1}
          /\ \A c \in CommandSent(last) : c = Len(last.out.http) /\ QueriesAt(last) = {1}
          /\ IsSelect(last) => CommandSent(last) = {}
    /\ IsNew =>
          /\ Len(last.out.http) <= 2
          /\ SessionPosts = DOMAIN last.out.http
    /\ (IsCall /\ ~IsNew /\ last.op \notin SelectingOps) => Len(last.out.http) <= 1

C30_Witness ==
    /\ last.op = "Tab::navigate"
    /\ Len(last.out.http) = 3
    /\ last.out.http[3].resp.kind = "fail"
    /\ last.out.ret = Err("FailedRequest")


\* ---- the id of the session
SessionQueries ==
    {"Session::get_all_tabs", "Session::get_selected_tab_id", "Session::get_selected_tab",
     "Session::get_timeouts", "Session::set_timeouts"}

\* C31: a session Session::new returned as Ok has an id, and it keeps that
\* id through every operation and its drop; so every query of such a
\* session sends its request and none takes the branch for an absent id.
C31_IdPresentAndKept ==
    /\ alive \in {"live", "dropped"} => session.id.some
    /\ (IsNew /\ last.out.ret.tag = "Ok") =>
          /\ session = last.out.session
          /\ session.id.some
    /\ (last.op # "none" /\ ~IsNew) =>
          /\ last.pre.id.some
          /\ session.id = last.pre.id
          /\ "session" \in DOMAIN last.out => last.out.session.id = last.pre.id
    /\ last.op \in SessionQueries => Len(last.out.http) = 1

C31_Witness ==
    /\ last.op = "Session::set_timeouts"
    /\ last.out.ret = Ok(Unit)
    /\ session.webdriver_process = "Some"
    /\ session.id.some
    /\ Len(last.out.http) = 1

====
